---------------------------- MODULE Spec2Model ----------------------------
(***************************************************************************)
(* A model of generator/client.go of protoc-gen-twirp_typescript: the      *)
(* walk of a FileDescriptorProto into the model registry (addMessageType,  *)
(* newField, protoToTSType, types, mapType), the service builder and the   *)
(* flag seeding of CreateClientAPI, the flag propagation                   *)
(* (ApplyMarshalFlags, enableMarshal, enableUnmarshal) and what the        *)
(* template emits (apiTemplate, stringify, parse).                         *)
(*                                                                         *)
(* Strings are sequences of tokens.  A token is an identifier fragment     *)
(* ("A", "Date", "Entry") or a punctuation character (".", "[", "]",       *)
(* "_"), so that concatenation, TrimPrefix, TrimSuffix, Trim and Replace   *)
(* work on them as they do on the bytes of a Go string.                    *)
(***************************************************************************)
EXTENDS Naturals, Sequences, FiniteSets, TLC

VARIABLES
    d,            \* the FileDescriptorProto given to CreateClientAPI
    pc,           \* position in CreateClientAPI, or how the process ended
    walk,         \* pending addMessageType calls, next call first
    Models,       \* ctx.Models
    modelLookup,  \* ctx.modelLookup: Name -> index into Models (a *Model)
    origin,       \* for each entry of Models, the message of d it was built from (0: none)
    Services,     \* ctx.Services
    seedM,        \* seeding loop: index into ctx.Models
    seedK,        \* seeding loop: index into the flattened methods of ctx.Services
    applyM,       \* ApplyMarshalFlags: index into ctx.Models
    applyF,       \* ApplyMarshalFlags: index into m.Fields
    applyPhase,   \* ApplyMarshalFlags: "marshal" or "unmarshal" half of the loop body
    stack,        \* the call stack of enableMarshal / enableUnmarshal
    fatal,        \* the arguments of the log.Fatalf that ended the run, or <<>>
    output,       \* what the template rendered: the helpers it defines and the ones it calls
    tmIn,         \* type mapper: the field descriptor given to protoToTSType
    tmOut         \* type mapper: the (tsType, jsonType) it returned, or <<>>

vars == <<d, pc, walk, Models, modelLookup, origin, Services, seedM, seedK,
          applyM, applyF, applyPhase, stack, fatal, output, tmIn, tmOut>>

(***************************************************************************)
(* Bounds.                                                                 *)
(***************************************************************************)
\* Messages of a nesting schema (any tree of them, any names of NameSet).
NestMsgs == 3
\* Messages of a reference schema (flat, one field each at most).
RefMsgs == 2
\* Frames the goroutine stack holds before the runtime ends the process.
MaxStack == 6

(***************************************************************************)
(* Go's strings package, on token sequences.                               *)
(***************************************************************************)
HasPrefix(s, p) == Len(s) >= Len(p) /\ SubSeq(s, 1, Len(p)) = p

HasSuffix(s, p) == Len(s) >= Len(p) /\ SubSeq(s, Len(s) - Len(p) + 1, Len(s)) = p

TrimPrefix(s, p) == IF HasPrefix(s, p) THEN SubSeq(s, Len(p) + 1, Len(s)) ELSE s

TrimSuffix(s, p) == IF HasSuffix(s, p) THEN SubSeq(s, 1, Len(s) - Len(p)) ELSE s

\* strings.Replace(s, old, "", -1) for a one-token old.
ReplaceAll(s, old) == SelectSeq(s, LAMBDA t : t # old)

\* strings.Replace(s, old, "", 1): only the first occurrence goes.
ReplaceFirst(s, old) ==
    IF \E i \in 1..Len(s) : s[i] = old
    THEN LET i == CHOOSE k \in 1..Len(s) : s[k] = old /\ \A j \in 1..(k - 1) : s[j] # old
         IN  SubSeq(s, 1, i - 1) \o SubSeq(s, i + 1, Len(s))
    ELSE s

\* strings.Trim(s, cutset): leading and trailing tokens of cutset go.
Trim(s, cutset) ==
    LET keep == {i \in 1..Len(s) : s[i] \notin cutset}
    IN  IF keep = {} THEN <<>>
        ELSE LET lo == CHOOSE i \in keep : \A j \in keep : i <= j
                 hi == CHOOSE i \in keep : \A j \in keep : i >= j
             IN  SubSeq(s, lo, hi)

\* strings.Split(s, sep) for a one-token sep.
RECURSIVE Split(_, _)
Split(s, sep) ==
    IF \E i \in 1..Len(s) : s[i] = sep
    THEN LET i == CHOOSE k \in 1..Len(s) : s[k] = sep /\ \A j \in 1..(k - 1) : s[j] # sep
         IN  <<SubSeq(s, 1, i - 1)>> \o Split(SubSeq(s, i + 1, Len(s)), sep)
    ELSE <<s>>

RECURSIVE Join(_)
Join(parts) == IF parts = <<>> THEN <<>> ELSE Head(parts) \o Join(Tail(parts))

\* The letters of the field names used here, lower case to capitalised.
Upper(t) == CASE t = "at" -> "At" [] t = "created" -> "Created" [] OTHER -> t

Lower(t) ==
    CASE t = "At" -> "at" [] t = "Created" -> "created"
      [] t = "A" -> "a" [] t = "B" -> "b" [] t = "C" -> "c" [] t = "D" -> "d"
      [] t = "Date" -> "date" [] t = "Get" -> "get" [] t = "Put" -> "put"
      [] OTHER -> t

\* strings.ToLower(s[0:1]) + s[1:]
LowerFirst(s) == <<Lower(Head(s))>> \o Tail(s)

\* The field names here have no empty part (p[0:1] of one would panic).
camelCase(s) ==
    LET parts == Split(s, "_")
    IN  Join([i \in 1..Len(parts) |->
                IF i = 1 THEN [k \in 1..Len(parts[i]) |-> Lower(parts[i][k])]
                ELSE [k \in 1..Len(parts[i]) |->
                        IF k = 1 THEN Upper(parts[i][k]) ELSE Lower(parts[i][k])]])

removePkg(s, pkg) == ReplaceAll(TrimPrefix(s, <<".">> \o pkg \o <<".">>), ".")

(***************************************************************************)
(* descriptor.FieldDescriptorProto and the type mapper.                    *)
(***************************************************************************)
FieldTypes ==
    {"TYPE_DOUBLE", "TYPE_FLOAT", "TYPE_INT64", "TYPE_UINT64", "TYPE_INT32",
     "TYPE_FIXED64", "TYPE_FIXED32", "TYPE_BOOL", "TYPE_STRING", "TYPE_GROUP",
     "TYPE_MESSAGE", "TYPE_BYTES", "TYPE_UINT32", "TYPE_ENUM", "TYPE_SFIXED32",
     "TYPE_SFIXED64", "TYPE_SINT32", "TYPE_SINT64"}

Labels == {"LABEL_OPTIONAL", "LABEL_REQUIRED", "LABEL_REPEATED"}

Pkg == <<"pkg">>

TimestampName == <<".", "google", ".", "protobuf", ".", "Timestamp">>

ExternalName == <<".", "other", ".", "X">>

FieldDesc(name, type, label, typeName) ==
    [name |-> name, type |-> type, label |-> label, typeName |-> typeName]

isRepeated(f) == f.label = "LABEL_REPEATED"

types(f, pkg) ==
    CASE f.type \in {"TYPE_DOUBLE", "TYPE_FIXED32", "TYPE_FIXED64", "TYPE_INT32", "TYPE_INT64"} ->
           <<(<<"number">>), (<<"number">>)>>
      [] f.type = "TYPE_STRING" -> <<(<<"string">>), (<<"string">>)>>
      [] f.type = "TYPE_BOOL" -> <<(<<"boolean">>), (<<"boolean">>)>>
      [] f.type = "TYPE_MESSAGE" ->
           IF f.typeName = TimestampName
           THEN <<(<<"Date">>), (<<"string">>)>>
           ELSE <<removePkg(f.typeName, pkg), removePkg(f.typeName, pkg) \o <<"JSON">> >>
      [] OTHER -> <<(<<"string">>), (<<"string">>)>>

protoToTSType(f, pkg) ==
    LET t == types(f, pkg)
    IN  IF isRepeated(f) THEN <<t[1] \o <<"[", "]">>, t[2] \o <<"[", "]">> >> ELSE t

(***************************************************************************)
(* descriptor.FileDescriptorProto.  msgs lists every DescriptorProto of    *)
(* the file; parent is 0 for an element of d.GetMessageType() and the      *)
(* enclosing message's index for an element of its GetNestedType().        *)
(***************************************************************************)
Msg(name, parent, fields, mapEntry) ==
    [name |-> name, parent |-> parent, fields |-> fields, mapEntry |-> mapEntry]

Method(name, inputType, outputType) ==
    [name |-> name, inputType |-> inputType, outputType |-> outputType]

File(msgs, services) == [package |-> Pkg, msgs |-> msgs, services |-> services]

\* The indices of the messages nested directly in message p (0: the file), in order.
RECURSIVE ChildrenFrom(_, _, _)
ChildrenFrom(msgs, p, i) ==
    IF i > Len(msgs) THEN <<>>
    ELSE (IF msgs[i].parent = p THEN <<i>> ELSE <<>>) \o ChildrenFrom(msgs, p, i + 1)

GetNestedType(msgs, p) == ChildrenFrom(msgs, p, 1)

\* The names of the messages enclosing message i, outermost first, then its own.
RECURSIVE Path(_, _)
Path(msgs, i) ==
    IF i = 0 THEN <<>> ELSE Path(msgs, msgs[i].parent) \o <<msgs[i].name>>

\* The fully qualified name protoc gives message i: .pkg.Outer.Inner
RECURSIVE Dotted(_)
Dotted(path) == IF path = <<>> THEN <<>> ELSE <<".">> \o Head(path) \o Dotted(Tail(path))

FullName(msgs, i) == <<".">> \o Pkg \o Dotted(Path(msgs, i))

(***************************************************************************)
(* Model, ModelField, MapDetails.  A nil *string or *MapDetails is <<>>,   *)
(* a set one is a one-element sequence.                                    *)
(***************************************************************************)
mapType(f, msgs, m, pkg) ==
    IF f.typeName = <<>> THEN <<>>
    ELSE LET splits == Split(f.typeName, ".")
             simpleName == splits[Len(splits)]
             nested == GetNestedType(msgs, m)
             hits == {k \in 1..Len(nested) :
                        /\ msgs[nested[k]].name = simpleName
                        /\ msgs[nested[k]].mapEntry}
         IN  IF hits = {} THEN <<>>
             ELSE LET n == msgs[nested[CHOOSE k \in hits : \A j \in hits : k <= j]]
                      \* the loop keeps the last field named key, the last named value
                      last(nm) == LET at == {e \in 1..Len(n.fields) : n.fields[e].name = nm}
                                  IN  IF at = {} THEN <<>>
                                      ELSE types(n.fields[CHOOSE e \in at :
                                                   \A j \in at : e >= j], pkg)[1]
                  IN  << <<"Map<">> \o last(<<"key">>) \o <<",">>
                         \o last(<<"value">>) \o <<">">> >>

newField(f, msgs, m, pkg) ==
    LET t == protoToTSType(f, pkg)
    IN  [Name       |-> camelCase(f.name),
         Type       |-> t[1],
         JSONName   |-> f.name,
         JSONType   |-> t[2],
         IsMessage  |-> f.type = "TYPE_MESSAGE",
         IsRepeated |-> isRepeated(f),
         MapType    |-> mapType(f, msgs, m, pkg)]

NewModel(name, primitive, fields) ==
    [Name |-> name, Primitive |-> primitive, Fields |-> fields, Map |-> <<>>,
     CanMarshal |-> FALSE, CanUnmarshal |-> FALSE]

\* The name with only the first dot of the prefix removed (Replace with n = 1).
FlatNameFirstDot(prefix, name) == ReplaceFirst(prefix, ".") \o name

\* model.Name of addMessageType: strings.Replace(prefix, ".", "", -1) + m.GetName()
FlatName(prefix, name) == ReplaceAll(prefix, ".") \o name

\* The last field of fields whose JSONName is nm (keyField, valueField).
LastNamed(fields, nm) ==
    LET at == {e \in 1..Len(fields) : fields[e].JSONName = nm}
    IN  fields[CHOOSE e \in at : \A j \in at : e >= j]

(***************************************************************************)
(* The schemas checked.  Each is a file protoc accepts: sibling messages   *)
(* have distinct names, a map entry has a key and a value field.           *)
(***************************************************************************)
NameSet == {<<"A">>, <<"B">>, <<"A", "B">>, <<"Date">>}

Letters == <<"A", "B", "C", "D">>

RefField(typeName, label) == FieldDesc(<<"ref">>, "TYPE_MESSAGE", label, typeName)

TimeField(label) == FieldDesc(<<"created", "_", "at">>, "TYPE_MESSAGE", label, TimestampName)

TextField == FieldDesc(<<"note">>, "TYPE_STRING", "LABEL_OPTIONAL", <<>>)

GetMethod(msgs, i, o) == Method(<<"Get">>, FullName(msgs, i), FullName(msgs, o))

PutMethod(msgs, i, o) == Method(<<"Put">>, FullName(msgs, i), FullName(msgs, o))

Svc(methods) == <<[name |-> <<"Svc">>, methods |-> methods]>>

\* Nesting schemas: every tree of NestMsgs messages, every naming of it;
\* message 1 may hold a field of one of the messages' types.
NestingSchemas ==
    LET I == 1..NestMsgs
        Shapes == {p \in [I -> 0..(NestMsgs - 1)] : \A i \in I : p[i] < i}
        Namings(p) == {n \in [I -> NameSet] :
                         \A i, j \in I : (i < j /\ p[i] = p[j]) => n[i] # n[j]}
        Bare(p, n) == [i \in I |-> Msg(n[i], p[i], <<>>, FALSE)]
        With(p, n, r) ==
            IF r = 0 THEN Bare(p, n)
            ELSE [Bare(p, n) EXCEPT
                    ![1].fields = <<RefField(FullName(Bare(p, n), r), "LABEL_OPTIONAL")>>]
    IN  {File(With(p, n, r), Svc(<<GetMethod(With(p, n, r), 1, 1)>>)) :
            <<p, n, r>> \in {t \in Shapes \X [I -> NameSet] \X (0..NestMsgs) :
                               t[2] \in Namings(t[1])}}

\* Reference schemas: RefMsgs top-level messages, each with no field or one
\* field (a message of the file, a timestamp, a message of another file;
\* singular or repeated); the last message may be named Date.
ReferenceSchemas ==
    LET I == 1..RefMsgs
        Named(dt) == [i \in I |->
                        Msg(IF dt /\ i = RefMsgs THEN <<"Date">> ELSE <<Letters[i]>>,
                            0, <<>>, FALSE)]
        Both == {"LABEL_OPTIONAL", "LABEL_REPEATED"}
        Menu(dt) == {<<>>, <<RefField(ExternalName, "LABEL_OPTIONAL")>>}
                    \cup {<<RefField(FullName(Named(dt), j), l)>> : j \in I, l \in Both}
                    \cup {<<TimeField(l)>> : l \in Both}
        Filled(dt, fs) == [i \in I |-> [Named(dt)[i] EXCEPT !.fields = fs[i]]]
    IN  UNION {{File(Filled(dt, fs), Svc(<<GetMethod(Filled(dt, fs), 1, o)>>)) :
                  fs \in [I -> Menu(dt)], o \in I} : dt \in BOOLEAN}

\* Map schemas: message A with a map field tags (protoc's nested TagsEntry)
\* and perhaps a second field, message B; one or two methods over A and B.
MapSchemas ==
    LET Shell == <<Msg(<<"A">>, 0, <<>>, FALSE),
                   Msg(<<"Tags", "Entry">>, 1, <<>>, TRUE),
                   Msg(<<"B">>, 0, <<>>, FALSE)>>
        Key == FieldDesc(<<"key">>, "TYPE_STRING", "LABEL_OPTIONAL", <<>>)
        Values == {FieldDesc(<<"value">>, "TYPE_STRING", "LABEL_OPTIONAL", <<>>),
                   FieldDesc(<<"value">>, "TYPE_MESSAGE", "LABEL_OPTIONAL", FullName(Shell, 3)),
                   FieldDesc(<<"value">>, "TYPE_MESSAGE", "LABEL_OPTIONAL", TimestampName)}
        Tags == FieldDesc(<<"tags">>, "TYPE_MESSAGE", "LABEL_REPEATED", FullName(Shell, 2))
        Extra == {<<>>, <<TextField>>,
                  <<RefField(FullName(Shell, 3), "LABEL_OPTIONAL")>>,
                  <<RefField(FullName(Shell, 3), "LABEL_REPEATED")>>}
        Inner == {<<>>, <<TextField>>, <<TimeField("LABEL_OPTIONAL")>>}
        Built(v, x, b) == [Shell EXCEPT ![1].fields = <<Tags>> \o x,
                                        ![2].fields = <<Key, v>>,
                                        ![3].fields = b]
        Ends == {1, 3}
        Calls == {<<GetMethod(Shell, i, o)>> : i \in Ends, o \in Ends}
                 \cup {<<GetMethod(Shell, i, o), PutMethod(Shell, j, q)>> :
                         i \in Ends, o \in Ends, j \in Ends, q \in Ends}
    IN  {File(Built(v, x, b), Svc(c)) : v \in Values, x \in Extra, b \in Inner, c \in Calls}

Schemas == NestingSchemas \cup ReferenceSchemas \cup MapSchemas

(***************************************************************************)
(* The registry.                                                           *)
(***************************************************************************)
NoLookup == [k \in {} |-> 0]

\* ctx.Models = append(ctx.Models, m); ctx.modelLookup[m.Name] = m
AddModel(models, lookup, m) ==
    [Models      |-> Append(models, m),
     modelLookup |-> [k \in DOMAIN lookup \cup {m.Name} |->
                        IF k = m.Name THEN Len(models) + 1 ELSE lookup[k]]]

NoField == FieldDesc(<<>>, "TYPE_STRING", "LABEL_OPTIONAL", <<>>)

\* The calls addMessageType makes for the messages nested in message p.
Calls(msgs, p, prefix) ==
    LET ns == GetNestedType(msgs, p)
    IN  [k \in 1..Len(ns) |-> [msg |-> ns[k], prefix |-> prefix]]

Init ==
    /\ d \in Schemas
    /\ pc = "walk"
    /\ walk = Calls(d.msgs, 0, <<>>)
    /\ Models = <<>>
    /\ modelLookup = NoLookup
    /\ origin = <<>>
    /\ Services = <<>>
    /\ seedM = 1
    /\ seedK = 1
    /\ applyM = 1
    /\ applyF = 1
    /\ applyPhase = "marshal"
    /\ stack = <<>>
    /\ fatal = <<>>
    /\ output = <<>>
    /\ tmIn = NoField
    /\ tmOut = <<>>

(***************************************************************************)
(* CreateClientAPI, first half: the walk, the services, the seeding.       *)
(***************************************************************************)
\* One call of addMessageType; its calls for the nested types run before
\* anything else that is pending.
AddMessageType ==
    /\ pc = "walk"
    /\ walk # <<>>
    /\ LET c == Head(walk)
           m == d.msgs[c.msg]
           fields == [k \in 1..Len(m.fields) |-> newField(m.fields[k], d.msgs, c.msg, d.package)]
           bare == NewModel(FlatName(c.prefix, m.name), FALSE, fields)
           model == IF m.mapEntry
                    THEN [bare EXCEPT !.Map =
                            <<[Name       |-> TrimSuffix(bare.Name, <<"Entry">>),
                               KeyField   |-> LastNamed(fields, <<"key">>),
                               ValueField |-> LastNamed(fields, <<"value">>)]>>]
                    ELSE bare
           reg == AddModel(Models, modelLookup, model)
       IN  /\ Models' = reg.Models
           /\ modelLookup' = reg.modelLookup
           /\ origin' = Append(origin, c.msg)
           /\ walk' = Calls(d.msgs, c.msg, c.prefix \o <<".">> \o m.name) \o Tail(walk)
    /\ UNCHANGED <<d, pc, Services, seedM, seedK, applyM, applyF, applyPhase,
                   stack, fatal, output, tmIn, tmOut>>

NewServiceMethod(m, pkg) ==
    [Name       |-> LowerFirst(m.name),
     Path       |-> m.name,
     InputArg   |-> LowerFirst(removePkg(m.inputType, pkg)),
     InputType  |-> removePkg(m.inputType, pkg),
     OutputType |-> removePkg(m.outputType, pkg)]

NewService(s, pkg) ==
    [Name    |-> s.name,
     Package |-> pkg,
     Methods |-> [k \in 1..Len(s.methods) |-> NewServiceMethod(s.methods[k], pkg)]]

BuildServices ==
    /\ pc = "walk"
    /\ walk = <<>>
    /\ Services' = [k \in 1..Len(d.services) |-> NewService(d.services[k], d.package)]
    /\ pc' = "seed"
    /\ UNCHANGED <<d, walk, Models, modelLookup, origin, seedM, seedK, applyM, applyF,
                   applyPhase, stack, fatal, output, tmIn, tmOut>>

\* Every sm of every s of ctx.Services, in the order the loops meet them.
RECURSIVE AllMethods(_)
AllMethods(svcs) ==
    IF svcs = <<>> THEN <<>> ELSE Head(svcs).Methods \o AllMethods(Tail(svcs))

\* The flag after m.CanMarshal = (m.Name == sm.InputType), an assignment for the if.
SeedFlagAssign(flag, match) == match

\* if m.Name == sm.InputType { m.CanMarshal = true }: the flag after the statement.
SeedFlag(flag, match) == IF match THEN TRUE ELSE flag

\* One pass of the innermost loop body, for model seedM and method seedK.
SeedStep ==
    /\ pc = "seed"
    /\ seedM <= Len(Models)
    /\ seedK <= Len(AllMethods(Services))
    /\ LET m == Models[seedM]
           sm == AllMethods(Services)[seedK]
       IN  Models' = [Models EXCEPT
                        ![seedM].CanMarshal = SeedFlag(m.CanMarshal, m.Name = sm.InputType),
                        ![seedM].CanUnmarshal = SeedFlag(m.CanUnmarshal, m.Name = sm.OutputType)]
    /\ IF seedK < Len(AllMethods(Services))
       THEN seedK' = seedK + 1 /\ seedM' = seedM
       ELSE seedK' = 1 /\ seedM' = seedM + 1
    /\ UNCHANGED <<d, pc, walk, modelLookup, origin, Services, applyM, applyF,
                   applyPhase, stack, fatal, output, tmIn, tmOut>>

\* ctx.AddModel(&Model{Name: "Date", Primitive: true}), then ApplyMarshalFlags is entered.
AddDate ==
    /\ pc = "seed"
    /\ (seedM > Len(Models) \/ AllMethods(Services) = <<>>)
    /\ LET reg == AddModel(Models, modelLookup, NewModel(<<"Date">>, TRUE, <<>>))
       IN  /\ Models' = reg.Models
           /\ modelLookup' = reg.modelLookup
    /\ origin' = Append(origin, 0)
    /\ pc' = "apply"
    /\ UNCHANGED <<d, walk, Services, seedM, seedK, applyM, applyF, applyPhase,
                   stack, fatal, output, tmIn, tmOut>>

(***************************************************************************)
(* ApplyMarshalFlags, enableMarshal, enableUnmarshal.  A frame of stack is *)
(* one running call of enableMarshal or enableUnmarshal: its function, its *)
(* model (an index into Models) and the field its loop is at.              *)
(***************************************************************************)
\* if !f.IsMessage || f.Type == "Date" { continue }
Skipped(f) == ~f.IsMessage \/ f.Type = <<"Date">>

BaseType(f) == IF f.IsRepeated THEN Trim(f.Type, {"[", "]"}) ELSE f.Type

Frame(fn, m) == [fn |-> fn, m |-> m, f |-> 1]

\* m.CanMarshal = true / m.CanUnmarshal = true, the first statement of the callee.
SetFlag(models, fn, m) ==
    IF fn = "marshal" THEN [models EXCEPT ![m].CanMarshal = TRUE]
    ELSE [models EXCEPT ![m].CanUnmarshal = TRUE]

ApplyVars == <<d, walk, modelLookup, origin, Services, seedM, seedK, output, tmIn, tmOut>>

AtField ==
    /\ pc = "apply"
    /\ stack = <<>>
    /\ applyM <= Len(Models)
    /\ applyF <= Len(Models[applyM].Fields)

\* The range over ctx.Models is over: ApplyMarshalFlags returns.
ApplyReturn ==
    /\ pc = "apply"
    /\ stack = <<>>
    /\ applyM > Len(Models)
    /\ pc' = "emit"
    /\ UNCHANGED <<Models, applyM, applyF, applyPhase, stack, fatal>>
    /\ UNCHANGED ApplyVars

\* The range over m.Fields is over: the next model.
ApplyNextModel ==
    /\ pc = "apply"
    /\ stack = <<>>
    /\ applyM <= Len(Models)
    /\ applyF > Len(Models[applyM].Fields)
    /\ applyM' = applyM + 1
    /\ applyF' = 1
    /\ UNCHANGED <<pc, Models, applyPhase, stack, fatal>>
    /\ UNCHANGED ApplyVars

ApplySkip ==
    /\ AtField
    /\ applyPhase = "marshal"
    /\ Skipped(Models[applyM].Fields[applyF])
    /\ applyF' = applyF + 1
    /\ UNCHANGED <<pc, Models, applyM, applyPhase, stack, fatal>>
    /\ UNCHANGED ApplyVars

\* if m.CanMarshal { ctx.enableMarshal(ctx.modelLookup[baseType]) }, the model found.
ApplyMarshalCall ==
    /\ AtField
    /\ applyPhase = "marshal"
    /\ LET m == Models[applyM]
           f == m.Fields[applyF]
       IN  /\ ~Skipped(f)
           /\ m.CanMarshal
           /\ BaseType(f) \in DOMAIN modelLookup
           /\ Models' = SetFlag(Models, "marshal", modelLookup[BaseType(f)])
           /\ stack' = <<Frame("marshal", modelLookup[BaseType(f)])>>
    /\ applyPhase' = "unmarshal"
    /\ UNCHANGED <<pc, applyM, applyF, fatal>>
    /\ UNCHANGED ApplyVars

\* The same statement, the lookup giving nil: enableMarshal writes through a nil *Model.
ApplyNilDeref ==
    /\ AtField
    /\ applyPhase = "marshal"
    /\ LET m == Models[applyM]
           f == m.Fields[applyF]
       IN  /\ ~Skipped(f)
           /\ m.CanMarshal
           /\ BaseType(f) \notin DOMAIN modelLookup
    /\ pc' = "panic"
    /\ UNCHANGED <<Models, applyM, applyF, applyPhase, stack, fatal>>
    /\ UNCHANGED ApplyVars

ApplyMarshalNone ==
    /\ AtField
    /\ applyPhase = "marshal"
    /\ ~Skipped(Models[applyM].Fields[applyF])
    /\ ~Models[applyM].CanMarshal
    /\ applyPhase' = "unmarshal"
    /\ UNCHANGED <<pc, Models, applyM, applyF, stack, fatal>>
    /\ UNCHANGED ApplyVars

\* if m.CanUnmarshal { m, ok := ctx.modelLookup[baseType]; ...; ctx.enableUnmarshal(m) }
ApplyUnmarshalCall ==
    /\ AtField
    /\ applyPhase = "unmarshal"
    /\ LET m == Models[applyM]
           f == m.Fields[applyF]
       IN  /\ ~Skipped(f)
           /\ m.CanUnmarshal
           /\ BaseType(f) \in DOMAIN modelLookup
           /\ Models' = SetFlag(Models, "unmarshal", modelLookup[BaseType(f)])
           /\ stack' = <<Frame("unmarshal", modelLookup[BaseType(f)])>>
    /\ applyPhase' = "marshal"
    /\ applyF' = applyF + 1
    /\ UNCHANGED <<pc, applyM, fatal>>
    /\ UNCHANGED ApplyVars

\* if !ok { log.Fatalf("could not find model of type %s for field %s", baseType, f.Name) }
ApplyFatal ==
    /\ AtField
    /\ applyPhase = "unmarshal"
    /\ LET m == Models[applyM]
           f == m.Fields[applyF]
       IN  /\ ~Skipped(f)
           /\ m.CanUnmarshal
           /\ BaseType(f) \notin DOMAIN modelLookup
           /\ fatal' = <<BaseType(f), f.Name>>
    /\ pc' = "fatal"
    /\ UNCHANGED <<Models, applyM, applyF, applyPhase, stack>>
    /\ UNCHANGED ApplyVars

ApplyUnmarshalNone ==
    /\ AtField
    /\ applyPhase = "unmarshal"
    /\ ~Skipped(Models[applyM].Fields[applyF])
    /\ ~Models[applyM].CanUnmarshal
    /\ applyPhase' = "marshal"
    /\ applyF' = applyF + 1
    /\ UNCHANGED <<pc, Models, applyM, stack, fatal>>
    /\ UNCHANGED ApplyVars

Top == stack[Len(stack)]

InCall ==
    /\ pc = "apply"
    /\ stack # <<>>

\* The callee's range over m.Fields is over: it returns to its caller.
EnableReturn ==
    /\ InCall
    /\ Top.f > Len(Models[Top.m].Fields)
    /\ stack' = SubSeq(stack, 1, Len(stack) - 1)
    /\ UNCHANGED <<pc, Models, applyM, applyF, applyPhase, fatal>>
    /\ UNCHANGED ApplyVars

EnableSkip ==
    /\ InCall
    /\ Top.f <= Len(Models[Top.m].Fields)
    /\ Skipped(Models[Top.m].Fields[Top.f])
    /\ stack' = [stack EXCEPT ![Len(stack)].f = Top.f + 1]
    /\ UNCHANGED <<pc, Models, applyM, applyF, applyPhase, fatal>>
    /\ UNCHANGED ApplyVars

\* mm, ok := ctx.modelLookup[baseType]; if !ok { log.Fatalf(...) }
EnableFatal ==
    /\ InCall
    /\ Top.f <= Len(Models[Top.m].Fields)
    /\ LET f == Models[Top.m].Fields[Top.f]
       IN  /\ ~Skipped(f)
           /\ BaseType(f) \notin DOMAIN modelLookup
           /\ fatal' = <<BaseType(f), f.Name>>
    /\ pc' = "fatal"
    /\ UNCHANGED <<Models, applyM, applyF, applyPhase, stack>>
    /\ UNCHANGED ApplyVars

\* ctx.enableMarshal(mm) / ctx.enableUnmarshal(mm): a frame more, no test of mm's flag.
EnableCall ==
    /\ InCall
    /\ Len(stack) < MaxStack
    /\ Top.f <= Len(Models[Top.m].Fields)
    /\ LET f == Models[Top.m].Fields[Top.f]
       IN  /\ ~Skipped(f)
           /\ BaseType(f) \in DOMAIN modelLookup
           /\ Models' = SetFlag(Models, Top.fn, modelLookup[BaseType(f)])
           /\ stack' = Append([stack EXCEPT ![Len(stack)].f = Top.f + 1],
                              Frame(Top.fn, modelLookup[BaseType(f)]))
    /\ UNCHANGED <<pc, applyM, applyF, applyPhase, fatal>>
    /\ UNCHANGED ApplyVars

\* The same call with the goroutine's stack full: the runtime ends the process.
StackOverflow ==
    /\ InCall
    /\ Len(stack) >= MaxStack
    /\ Top.f <= Len(Models[Top.m].Fields)
    /\ LET f == Models[Top.m].Fields[Top.f]
       IN  /\ ~Skipped(f)
           /\ BaseType(f) \in DOMAIN modelLookup
    /\ pc' = "overflow"
    /\ UNCHANGED <<Models, applyM, applyF, applyPhase, stack, fatal>>
    /\ UNCHANGED ApplyVars

ApplyMarshalFlags ==
    \/ ApplyReturn \/ ApplyNextModel \/ ApplySkip
    \/ ApplyMarshalCall \/ ApplyNilDeref \/ ApplyMarshalNone
    \/ ApplyUnmarshalCall \/ ApplyFatal \/ ApplyUnmarshalNone
    \/ EnableReturn \/ EnableSkip \/ EnableFatal \/ EnableCall \/ StackOverflow

(***************************************************************************)
(* The template.  stringify and parse return TypeScript expressions; an    *)
(* expression is kept as its form, the helper it calls (if any) and the    *)
(* member of m it reads:                                                   *)
(*   member         m.F                                                    *)
(*   call           H(m.F)                                                 *)
(*   mapCall        m.F.map(H)                                             *)
(*   toISOString    m.F.toISOString()                                      *)
(*   mapToISOString m.F.map((n) => n.toISOString())                        *)
(*   newDate        new Date(m.F)                                          *)
(*   mapNewDate     m.F.map((n) => new Date(n))                            *)
(***************************************************************************)
Expr(form, helper, member) == [form |-> form, helper |-> helper, member |-> member]

stringify(f) ==
    CASE f.IsRepeated /\ f.Type = <<"Date">> ->
           Expr("mapToISOString", <<>>, f.Name)
      [] f.IsRepeated /\ f.Type # <<"Date">> /\ f.MapType # <<>> ->
           Expr("call", TrimSuffix(f.Type, <<"Entry", "[", "]">>) \o <<"MapToJSON">>, f.Name)
      [] f.IsRepeated /\ f.Type # <<"Date">> /\ f.MapType = <<>> /\ f.IsMessage ->
           Expr("mapCall", TrimSuffix(f.Type, <<"[", "]">>) \o <<"ToJSON">>, f.Name)
      [] OTHER ->
           IF f.Type = <<"Date">> THEN Expr("toISOString", <<>>, f.Name)
           ELSE IF f.IsMessage THEN Expr("call", f.Type \o <<"ToJSON">>, f.Name)
           ELSE Expr("member", <<>>, f.Name)

parse(f) ==
    CASE f.IsRepeated /\ f.Type = <<"Date">> ->
           Expr("mapNewDate", <<>>, f.JSONName)
      [] f.IsRepeated /\ f.Type # <<"Date">> /\ f.MapType # <<>> ->
           Expr("call", <<"JSONTo">> \o TrimSuffix(f.Type, <<"Entry", "[", "]">>) \o <<"Map">>,
                f.JSONName)
      [] f.IsRepeated /\ f.Type # <<"Date">> /\ f.MapType = <<>> /\ f.IsMessage ->
           Expr("mapCall", <<"JSONTo">> \o TrimSuffix(f.Type, <<"[", "]">>), f.JSONName)
      [] OTHER ->
           IF f.Type = <<"Date">> THEN Expr("newDate", <<>>, f.JSONName)
           ELSE IF f.IsMessage THEN Expr("call", <<"JSONTo">> \o f.Type, f.JSONName)
           ELSE Expr("member", <<>>, f.JSONName)

\* An emitted const: its name, the model it is rendered from, which of the four
\* function templates it is, and its properties: the key written, the expression.
Func(name, model, kind, props) == [name |-> name, model |-> model, kind |-> kind, props |-> props]

Prop(key, expr, field) == [key |-> key, expr |-> expr, field |-> field]

\* {{if .CanMarshal}} ... {{end}} for model i: one const or none.
MarshalFuncs(models, i) ==
    LET m == models[i]
        props == [k \in 1..Len(m.Fields) |->
                    Prop(m.Fields[k].JSONName, stringify(m.Fields[k]), m.Fields[k])]
    IN  IF ~m.CanMarshal THEN <<>>
        ELSE IF m.Map # <<>>
        THEN <<Func(m.Map[1].Name \o <<"MapToJSON">>, i, "MapToJSON", props)>>
        ELSE <<Func(m.Name \o <<"ToJSON">>, i, "ToJSON", props)>>

\* {{if .CanUnmarshal}} ... {{end}} for model i: one const or none.
UnmarshalFuncs(models, i) ==
    LET m == models[i]
        props == [k \in 1..Len(m.Fields) |->
                    Prop(m.Fields[k].Name, parse(m.Fields[k]), m.Fields[k])]
    IN  IF ~m.CanUnmarshal THEN <<>>
        ELSE IF m.Map # <<>>
        THEN <<Func(<<"JSONTo">> \o m.Map[1].Name \o <<"Map">>, i, "JSONToMap",
                    <<Prop(<<"0">>, parse(m.Map[1].KeyField), m.Map[1].KeyField),
                      Prop(<<"1">>, parse(m.Map[1].ValueField), m.Map[1].ValueField)>>)>>
        ELSE <<Func(<<"JSONTo">> \o m.Name, i, "JSONTo", props)>>

\* {{range .Models}}{{if not .Primitive}} ... {{end}}{{end}}, from model i on.
RECURSIVE ModelFuncs(_, _)
ModelFuncs(models, i) ==
    IF i > Len(models) THEN <<>>
    ELSE (IF models[i].Primitive THEN <<>>
          ELSE MarshalFuncs(models, i) \o UnmarshalFuncs(models, i))
         \o ModelFuncs(models, i + 1)

\* A client method: the two helpers its body names.
ClientMethod(sm) ==
    [Name      |-> sm.Name,
     Path      |-> sm.Path,
     marshal   |-> sm.InputType \o <<"ToJSON">>,
     unmarshal |-> <<"JSONTo">> \o sm.OutputType]

RECURSIVE Interfaces(_, _)
Interfaces(models, i) ==
    IF i > Len(models) THEN <<>>
    ELSE (IF models[i].Primitive THEN <<>>
          ELSE (IF models[i].Map = <<>> THEN <<models[i].Name>> ELSE <<>>)
               \o <<models[i].Name \o <<"JSON">> >>)
         \o Interfaces(models, i + 1)

Render(models, svcs) ==
    [interfaces |-> Interfaces(models, 1),
     funcs      |-> ModelFuncs(models, 1),
     client     |-> [k \in 1..Len(AllMethods(svcs)) |-> ClientMethod(AllMethods(svcs)[k])]]

\* t.Execute(b, ctx)
Emit ==
    /\ pc = "emit"
    /\ output' = <<Render(Models, Services)>>
    /\ pc' = "done"
    /\ UNCHANGED <<d, walk, Models, modelLookup, origin, Services, seedM, seedK,
                   applyM, applyF, applyPhase, stack, fatal, tmIn, tmOut>>

Next ==
    \/ AddMessageType \/ BuildServices \/ SeedStep \/ AddDate
    \/ ApplyMarshalFlags \/ Emit

Spec == Init /\ [][Next]_vars

(***************************************************************************)
(* The type mapper alone: protoToTSType applied to one field descriptor.   *)
(***************************************************************************)
TypeNames == {<<>>, TimestampName, <<".", "pkg", ".", "A">>, <<".", "pkg", ".", "A", ".", "B">>}

InitTypes ==
    /\ d = File(<<>>, <<>>)
    /\ pc = "types"
    /\ walk = <<>>
    /\ Models = <<>>
    /\ modelLookup = NoLookup
    /\ origin = <<>>
    /\ Services = <<>>
    /\ seedM = 1
    /\ seedK = 1
    /\ applyM = 1
    /\ applyF = 1
    /\ applyPhase = "marshal"
    /\ stack = <<>>
    /\ fatal = <<>>
    /\ output = <<>>
    /\ tmIn \in {FieldDesc(<<"x">>, t, l, n) :
                   <<t, l, n>> \in {c \in FieldTypes \X Labels \X TypeNames :
                                      (c[1] = "TYPE_MESSAGE") = (c[3] # <<>>)}}
    /\ tmOut = <<>>

ApplyTypeMapper ==
    /\ pc = "types"
    /\ tmOut' = protoToTSType(tmIn, Pkg)
    /\ pc' = "typed"
    /\ UNCHANGED <<d, walk, Models, modelLookup, origin, Services, seedM, seedK,
                   applyM, applyF, applyPhase, stack, fatal, output, tmIn>>

NextTypes == ApplyTypeMapper

SpecTypes == InitTypes /\ [][NextTypes]_vars

(***************************************************************************)
(* The emitted TypeScript, run.  A value is [t |-> its kind, v |-> ...]:   *)
(*   undefined  <<>>                    string  its text                   *)
(*   Date       <<milliseconds>>        iso     <<seconds, milliseconds>>  *)
(*   object     key -> value            array   its elements               *)
(*   Map        its <<key, value>> entries, in order                       *)
(*   error      <<the exception thrown>>                                   *)
(* iso is a string in RFC 3339 form, as toISOString returns it.            *)
(***************************************************************************)
Val(t, v) == [t |-> t, v |-> v]

Undefined == Val("undefined", <<>>)

Thrown(e) == Val("error", <<e>>)

\* The first error among the values vs, or none (<<>>).
Errors(vs) == SelectSeq(vs, LAMBDA x : x.t = "error")

\* m.key
Member(m, key) ==
    CASE m.t = "object" -> IF key \in DOMAIN m.v THEN m.v[key] ELSE Undefined
      [] m.t \in {"undefined", "error"} -> Thrown("TypeError")
      [] OTHER -> Undefined

toISOString(x) ==
    IF x.t = "Date" THEN Val("iso", <<x.v[1] \div 1000, x.v[1] % 1000>>)
    ELSE Thrown("TypeError")

newDate(x) ==
    IF x.t = "iso" THEN Val("Date", <<x.v[1] * 1000 + x.v[2]>>)
    ELSE Thrown("InvalidDate")

\* The emitted consts named h.
Resolve(out, h) == {k \in 1..Len(out.funcs) : out.funcs[k].name = h}

\* { k1: v1, ... } from the properties ps and their values vs; a later key wins.
Object(ps, vs) ==
    Val("object", [key \in {ps[k].key : k \in 1..Len(ps)} |->
                     vs[CHOOSE k \in 1..Len(ps) :
                          /\ ps[k].key = key
                          /\ \A j \in 1..Len(ps) : ps[j].key = key => j <= k]])

\* {{if .MapType}}new Map(){{else if .IsRepeated}}[]{{else}}undefined{{end}}
Default(f) ==
    IF f.MapType # <<>> THEN Val("Map", <<>>)
    ELSE IF f.IsRepeated THEN Val("array", <<>>)
    ELSE Undefined

RECURSIVE Eval(_, _, _), Call(_, _, _), Run(_, _, _)

\* The expression e with m bound.
Eval(out, e, m) ==
    LET x == Member(m, e.member)
    IN  CASE e.form = "member" -> x
          [] e.form = "toISOString" -> IF x.t = "error" THEN x ELSE toISOString(x)
          [] e.form = "newDate" -> IF x.t = "error" THEN x ELSE newDate(x)
          [] e.form = "call" -> Call(out, e.helper, x)
          [] e.form = "mapCall" ->
               IF Resolve(out, e.helper) = {} THEN Thrown("ReferenceError")
               ELSE IF x.t # "array" THEN Thrown("TypeError")
               ELSE LET ys == [k \in 1..Len(x.v) |-> Call(out, e.helper, x.v[k])]
                    IN  IF Errors(ys) # <<>> THEN Head(Errors(ys)) ELSE Val("array", ys)
          [] e.form = "mapToISOString" ->
               IF x.t # "array" THEN Thrown("TypeError")
               ELSE LET ys == [k \in 1..Len(x.v) |-> toISOString(x.v[k])]
                    IN  IF Errors(ys) # <<>> THEN Head(Errors(ys)) ELSE Val("array", ys)
          [] e.form = "mapNewDate" ->
               IF x.t # "array" THEN Thrown("TypeError")
               ELSE LET ys == [k \in 1..Len(x.v) |-> newDate(x.v[k])]
                    IN  IF Errors(ys) # <<>> THEN Head(Errors(ys)) ELSE Val("array", ys)

\* h(x): no const of that name is a ReferenceError, two are a redeclaration.
Call(out, h, x) ==
    IF x.t = "error" THEN x
    ELSE IF Resolve(out, h) = {} THEN Thrown("ReferenceError")
    ELSE IF Cardinality(Resolve(out, h)) > 1 THEN Thrown("SyntaxError")
    ELSE Run(out, CHOOSE k \in Resolve(out, h) : TRUE, x)

\* The body of the emitted const k, applied to x.
Run(out, k, x) ==
    LET fn == out.funcs[k]
        ps == fn.props
    IN  CASE fn.kind = "ToJSON" ->
               LET vs == [j \in 1..Len(ps) |-> Eval(out, ps[j].expr, x)]
               IN  IF Errors(vs) # <<>> THEN Head(Errors(vs)) ELSE Object(ps, vs)
          [] fn.kind = "JSONTo" ->
               LET vs == [j \in 1..Len(ps) |->
                            IF x.t = "undefined" THEN Default(ps[j].field)
                            ELSE Eval(out, ps[j].expr, x)]
               IN  IF Errors(vs) # <<>> THEN Head(Errors(vs)) ELSE Object(ps, vs)
          [] fn.kind = "MapToJSON" ->
               IF x.t # "Map" THEN Thrown("TypeError")
               ELSE LET row(en) ==
                            LET m == Val("object", (<<"key">> :> en[1]) @@ (<<"value">> :> en[2]))
                                vs == [j \in 1..Len(ps) |-> Eval(out, ps[j].expr, m)]
                            IN  IF Errors(vs) # <<>> THEN Head(Errors(vs)) ELSE Object(ps, vs)
                        rows == [n \in 1..Len(x.v) |-> row(x.v[n])]
                    IN  IF Errors(rows) # <<>> THEN Head(Errors(rows)) ELSE Val("array", rows)
          [] fn.kind = "JSONToMap" ->
               IF x.t # "array" THEN Thrown("TypeError")
               ELSE LET ks == [n \in 1..Len(x.v) |-> Eval(out, ps[1].expr, x.v[n])]
                        vs == [n \in 1..Len(x.v) |-> Eval(out, ps[2].expr, x.v[n])]
                    IN  IF Errors(ks \o vs) # <<>> THEN Head(Errors(ks \o vs))
                        ELSE Val("Map", [n \in 1..Len(x.v) |-> <<ks[n], vs[n]>>])

\* Equal values; two Dates are equal when their RFC 3339 strings are.
RECURSIVE Same(_, _)
Same(a, b) ==
    /\ a.t = b.t
    /\ CASE a.t \in {"undefined", "string", "iso", "error"} -> a.v = b.v
         [] a.t = "Date" -> toISOString(a).v = toISOString(b).v
         [] a.t = "object" ->
              /\ DOMAIN a.v = DOMAIN b.v
              /\ \A key \in DOMAIN a.v : Same(a.v[key], b.v[key])
         [] a.t = "array" ->
              /\ Len(a.v) = Len(b.v)
              /\ \A k \in 1..Len(a.v) : Same(a.v[k], b.v[k])
         [] a.t = "Map" ->
              /\ Len(a.v) = Len(b.v)
              /\ \A k \in 1..Len(a.v) : Same(a.v[k][1], b.v[k][1]) /\ Same(a.v[k][2], b.v[k][2])

(***************************************************************************)
(* A populated instance of a message of the schema, as the emitted         *)
(* interface types it: every field set, a repeated field and a map with   *)
(* one element.  Messages nest to the depth given; below it a singular     *)
(* message field is unset and a repeated one empty.                        *)
(***************************************************************************)
\* The message of msgs whose fully qualified name is typeName, or 0.
MsgIndex(msgs, typeName) ==
    IF \E k \in 1..Len(msgs) : FullName(msgs, k) = typeName
    THEN CHOOSE k \in 1..Len(msgs) : FullName(msgs, k) = typeName
    ELSE 0

RECURSIVE SampleMsg(_, _, _), SampleField(_, _, _, _), SampleOne(_, _, _)

SampleOne(msgs, f, depth) ==
    IF f.type # "TYPE_MESSAGE" THEN Val("string", f.name)
    ELSE IF f.typeName = TimestampName THEN Val("Date", <<61500>>)
    ELSE IF MsgIndex(msgs, f.typeName) = 0 \/ depth = 0 THEN Undefined
    ELSE SampleMsg(msgs, MsgIndex(msgs, f.typeName), depth - 1)

SampleField(msgs, k, f, depth) ==
    LET j == MsgIndex(msgs, f.typeName)
    IN  IF f.type = "TYPE_MESSAGE" /\ isRepeated(f) /\ j # 0 /\ msgs[j].mapEntry /\ msgs[j].parent = k
        THEN LET key == CHOOSE e \in 1..Len(msgs[j].fields) : msgs[j].fields[e].name = <<"key">>
                 val == CHOOSE e \in 1..Len(msgs[j].fields) : msgs[j].fields[e].name = <<"value">>
             IN  Val("Map", << <<SampleOne(msgs, msgs[j].fields[key], depth),
                                 SampleOne(msgs, msgs[j].fields[val], depth)>> >>)
        ELSE IF isRepeated(f)
        THEN IF SampleOne(msgs, f, depth).t = "undefined" THEN Val("array", <<>>)
             ELSE Val("array", <<SampleOne(msgs, f, depth)>>)
        ELSE SampleOne(msgs, f, depth)

SampleMsg(msgs, k, depth) ==
    LET fs == msgs[k].fields
    IN  Val("object", [key \in {camelCase(fs[e].name) : e \in 1..Len(fs)} |->
                         SampleField(msgs, k,
                                     fs[CHOOSE e \in 1..Len(fs) : camelCase(fs[e].name) = key],
                                     depth)])

\* The emitted const of the given kind rendered from model i.
FuncOf(out, i, kind) ==
    {k \in 1..Len(out.funcs) : out.funcs[k].model = i /\ out.funcs[k].kind = kind}

\* JSONToX(XToJSON(v)) for model i and the populated instance v of its message.
RoundTrip(out, i, v) ==
    LET enc == Run(out, CHOOSE k \in FuncOf(out, i, "ToJSON") : TRUE, v)
    IN  IF enc.t = "error" THEN enc
        ELSE Run(out, CHOOSE k \in FuncOf(out, i, "JSONTo") : TRUE, enc)

(***************************************************************************)
(* The message-reference graph of the schema, read from the descriptor.    *)
(***************************************************************************)
MsgIds == 1..Len(d.msgs)

\* Message a has a field whose type is message b (a timestamp field has none).
Refers(a, b) ==
    \E e \in 1..Len(d.msgs[a].fields) :
        /\ d.msgs[a].fields[e].type = "TYPE_MESSAGE"
        /\ d.msgs[a].fields[e].typeName = FullName(d.msgs, b)

RECURSIVE Reach(_)
Reach(S) ==
    LET T == S \cup {b \in MsgIds : \E a \in S : Refers(a, b)}
    IN  IF T = S THEN S ELSE Reach(T)

DescMethods == UNION {{s.methods[k] : k \in 1..Len(s.methods)} :
                        s \in {d.services[n] : n \in 1..Len(d.services)}}

InputMsgs == {k \in MsgIds : \E m \in DescMethods : m.inputType = FullName(d.msgs, k)}

OutputMsgs == {k \in MsgIds : \E m \in DescMethods : m.outputType = FullName(d.msgs, k)}

\* The messages reached from k by one reference or more.
ReachPlus(k) == Reach({b \in MsgIds : Refers(k, b)})

OnCycle(k) == k \in ReachPlus(k)

\* The messages on a cycle through message k.
CycleOf(k) == {b \in ReachPlus(k) : k \in ReachPlus(b)}

ModelIds == 1..Len(Models)

Returned == pc \in {"emit", "done"}

(***************************************************************************)
(* Properties.                                                             *)
(***************************************************************************)

\* C1: once ApplyMarshalFlags has returned, a model built from a message of
\* the schema has CanMarshal exactly when its message is a method's input type
\* or is reached from one through message-typed fields, and CanUnmarshal
\* exactly when the same holds from the methods' output types.
C1_FlagsAreTheClosure ==
    Returned =>
        \A i \in ModelIds :
            origin[i] # 0 =>
                /\ Models[i].CanMarshal <=> origin[i] \in Reach(InputMsgs)
                /\ Models[i].CanUnmarshal <=> origin[i] \in Reach(OutputMsgs)

\* C2: when a message on a cycle of the reference graph is flagged, the
\* propagation does not recurse until the stack is exhausted, and when it has
\* returned every message of that cycle carries the flag.
C2_CyclicPropagationTerminates ==
    \A i \in ModelIds :
        (origin[i] # 0 /\ OnCycle(origin[i])) =>
            /\ (Models[i].CanMarshal \/ Models[i].CanUnmarshal) => pc # "overflow"
            /\ Returned =>
                 \A j \in ModelIds :
                     origin[j] \in CycleOf(origin[i]) =>
                         /\ Models[i].CanMarshal => Models[j].CanMarshal
                         /\ Models[i].CanUnmarshal => Models[j].CanUnmarshal

\* The field the propagation is at, and whether it is about to resolve it.
CurField ==
    IF stack # <<>> THEN Models[Top.m].Fields[Top.f] ELSE Models[applyM].Fields[applyF]

Resolving ==
    /\ pc = "apply"
    /\ IF stack # <<>> THEN Top.f <= Len(Models[Top.m].Fields)
       ELSE /\ applyM <= Len(Models)
            /\ applyF <= Len(Models[applyM].Fields)
            /\ \/ applyPhase = "marshal" /\ Models[applyM].CanMarshal
               \/ applyPhase = "unmarshal" /\ Models[applyM].CanUnmarshal
    /\ ~Skipped(CurField)

\* C3: a step that resolves a field whose base type no model is registered
\* under ends the run with the fatal error naming that type and the field,
\* at the top level of ApplyMarshalFlags and in enableMarshal/enableUnmarshal.
C3_UnknownModelIsFatal ==
    [][(Resolving /\ BaseType(CurField) \notin DOMAIN modelLookup) =>
          (pc' = "fatal" /\ fatal' = <<BaseType(CurField), CurField.Name>>)]_vars

\* C4: the model registered for a message is named by the names of the
\* messages enclosing it, outermost first, then its own, with no dots.
C4_FlattenedName ==
    \A i \in ModelIds : origin[i] # 0 => Models[i].Name = Join(Path(d.msgs, origin[i]))

\* A message nested two deep has been registered.
C4_Witness ==
    \E i \in ModelIds : origin[i] # 0 /\ Len(Path(d.msgs, origin[i])) = 3

\* C5: the registry holds one model per Name, and the lookup entry of a Name
\* is the model of the list with that Name.
C5_OneModelPerName ==
    /\ \A i, j \in ModelIds : i # j => Models[i].Name # Models[j].Name
    /\ \A i \in ModelIds : modelLookup[Models[i].Name] = i

\* The model and the field the propagation is at, when it is at a field that
\* the schema types as a timestamp.
CurModel == IF stack # <<>> THEN Top.m ELSE applyM

CurIndex == IF stack # <<>> THEN Top.f ELSE applyF

AtTimestampField ==
    /\ pc = "apply"
    /\ CurModel <= Len(Models)
    /\ CurIndex <= Len(Models[CurModel].Fields)
    /\ origin[CurModel] # 0
    /\ d.msgs[origin[CurModel]].fields[CurIndex].typeName = TimestampName

\* C6: a step of the propagation at a timestamp field, singular or repeated,
\* is a skip: it flags no model, the date placeholder included, and it makes
\* no call.
C6_TimestampNeverPropagates ==
    [][AtTimestampField => (Models' = Models /\ Len(stack') <= Len(stack))]_vars

NumericTypes ==
    {"TYPE_FLOAT", "TYPE_DOUBLE", "TYPE_FIXED32", "TYPE_FIXED64", "TYPE_SFIXED32",
     "TYPE_SFIXED64", "TYPE_INT32", "TYPE_INT64", "TYPE_UINT32", "TYPE_UINT64",
     "TYPE_SINT32", "TYPE_SINT64"}

\* C7: a field of a numeric type maps to ("number", "number"), and to
\* ("number[]", "number[]") when it is repeated.
C7_NumericIsNumber ==
    (pc = "typed" /\ tmIn.type \in NumericTypes) =>
        tmOut = IF tmIn.label = "LABEL_REPEATED"
                THEN << <<"number", "[", "]">>, <<"number", "[", "]">> >>
                ELSE << <<"number">>, <<"number">> >>

\* C8: for a model with both flags, unmarshal after marshal gives back a
\* populated instance of its message.
C8_RoundTrip ==
    pc = "done" =>
        \A i \in ModelIds :
            (origin[i] # 0 /\ Models[i].Map = <<>>
                /\ Models[i].CanMarshal /\ Models[i].CanUnmarshal) =>
                Same(RoundTrip(output[1], i, SampleMsg(d.msgs, origin[i], Len(d.msgs))),
                     SampleMsg(d.msgs, origin[i], Len(d.msgs)))

\* C9: no step takes a flag from true to false, and no step changes a model
\* once ApplyMarshalFlags has returned.
C9_FlagsMonotonic ==
    [][/\ \A i \in ModelIds :
             /\ i <= Len(Models')
             /\ Models[i].CanMarshal => Models'[i].CanMarshal
             /\ Models[i].CanUnmarshal => Models'[i].CanUnmarshal
       /\ Returned => Models' = Models]_vars

\* The run is over, with a flag set by the seeding and one set by the propagation.
C9_Witness ==
    /\ pc = "done"
    /\ \E i, j \in ModelIds :
           /\ origin[i] \in InputMsgs /\ Models[i].CanMarshal
           /\ origin[j] # 0 /\ origin[j] \notin InputMsgs /\ Models[j].CanMarshal

\* The helpers the emitted functions and client methods name, and those emitted.
Referenced(out) ==
    (UNION {{out.funcs[k].props[j].expr.helper : j \in 1..Len(out.funcs[k].props)} :
               k \in 1..Len(out.funcs)} \ {<<>>})
    \cup {out.client[k].marshal : k \in 1..Len(out.client)}
    \cup {out.client[k].unmarshal : k \in 1..Len(out.client)}

Emitted(out) == {out.funcs[k].name : k \in 1..Len(out.funcs)}

\* Every type a method or a field of the schema names is a message of the file
\* or the timestamp.
SelfContained ==
    /\ \A m \in DescMethods :
           MsgIndex(d.msgs, m.inputType) # 0 /\ MsgIndex(d.msgs, m.outputType) # 0
    /\ \A k \in MsgIds : \A e \in 1..Len(d.msgs[k].fields) :
           d.msgs[k].fields[e].type = "TYPE_MESSAGE" =>
               \/ d.msgs[k].fields[e].typeName = TimestampName
               \/ MsgIndex(d.msgs, d.msgs[k].fields[e].typeName) # 0

\* C10: every helper the emitted module names is one it defines.
C10_NoDanglingHelper ==
    (pc = "done" /\ SelfContained) => Referenced(output[1]) \subseteq Emitted(output[1])

=============================================================================
